---- MODULE Spec2Model ----
(***************************************************************************)
(* Model of ai-signal-feed: the signal classifier                          *)
(* (src/src/classifier/signal_classifier.py), the persistence layer        *)
(* (src/src/database/database.py, models.py) and the ingestion run         *)
(* (src/app/streamlit_app.py, run_manual_scrape).                          *)
(*                                                                         *)
(* Conventions                                                             *)
(*  - A Python value is a record [k, s, n]: k is its dynamic type          *)
(*    ("absent" = the dict has no such key, "none", "str", "int", "float", *)
(*    "list", "naive"/"aware" datetime), s the words of a string, n the    *)
(*    number of an int, the value of a float in the unit of a tier score,  *)
(*    or the instant (in hours) of a datetime.                             *)
(*  - A string is the sequence of its whitespace-separated words; a        *)
(*    keyword or name is a sequence of words and occurs in a text when it  *)
(*    is a contiguous run of the text's words (the regex \b...\b search).  *)
(*  - Sub-scores are integers in hundredths (1.0 = 100).  A tier score is  *)
(*    the weighted sum in thousandths, times Ulp, plus the rounding error  *)
(*    of the Python float computation, which is some value in -1..1 (far   *)
(*    less than one thousandth) fixed by the operands: fperr.              *)
(***************************************************************************)
EXTENDS Integers, Sequences, FiniteSets, TLC

VARIABLES
    item,       \* classifier: the dict handed to classify
    now,        \* datetime.utcnow(), in hours
    fperr,      \* rounding errors of the three float sums for (item, now)
    classifier, \* the SignalClassifier object (its attributes)
    calls,      \* classifier: log of the classify calls made so far
    rows,       \* the feed_items table: the set of persisted rows
    ret,        \* the last call of an operation that is logged, its result
    procs,      \* concurrent add_feed_item calls: pc and locals per process
    run         \* run_manual_scrape: its position and local variables

vars == <<item, now, fperr, classifier, calls, rows, ret, procs, run>>

\* the variables of each component
clstate == <<item, fperr, classifier, calls>>
ccstate == <<procs>>
runstate == <<run>>

\* ------------------------------------------------------------------ bounds
Ulp == 4            \* resolution of a tier score below one thousandth
MaxCalls == 2       \* classify calls per behaviour
MaxTicks == 2       \* clock steps of a database behaviour
MaxOps == 2         \* add_feed_item calls per concurrent process
Now0 == 300         \* the instant of the classifier runs, in hours
MaxRecords == 2     \* source records one scrape() receives
MaxItems == 2       \* items in the list of one classification summary

\* ----------------------------------------------------------- Python values
Absent == [k |-> "absent", s |-> <<>>, n |-> 0]
None == [k |-> "none", s |-> <<>>, n |-> 0]
EmptyList == [k |-> "list", s |-> <<>>, n |-> 0]
PyStr(ws) == [k |-> "str", s |-> ws, n |-> 0]
PyInt(i) == [k |-> "int", s |-> <<>>, n |-> i]
PyFloat(x) == [k |-> "float", s |-> <<>>, n |-> x]
Naive(t) == [k |-> "naive", s |-> <<>>, n |-> t]
Aware(t) == [k |-> "aware", s |-> <<>>, n |-> t]
\* an ISO date string: "iso" parses to a naive datetime, "isoZ" (a trailing
\* Z, replaced by +00:00) to an aware one; any other string does not parse
IsoStr(t) == [k |-> "str", s |-> <<"iso">>, n |-> t]
IsoStrZ(t) == [k |-> "str", s |-> <<"isoZ">>, n |-> t]

\* dict.get(key, default)
Get(d, key, default) ==
    IF key \notin DOMAIN d THEN default
    ELSE IF d[key].k = "absent" THEN default ELSE d[key]

\* bool(v)
Truthy(v) ==
    CASE v.k = "none" -> FALSE
      [] v.k = "absent" -> FALSE
      [] v.k = "str" -> v.s # <<>>
      [] v.k \in {"int", "float"} -> v.n # 0
      [] v.k = "list" -> FALSE
      [] OTHER -> TRUE

\* the outcome of a step: a value, or an exception raised
Ok(x) == [ok |-> TRUE, v |-> x]
Raise == [ok |-> FALSE, v |-> 0]

Min(a, b) == IF a <= b THEN a ELSE b
Max(a, b) == IF a >= b THEN a ELSE b

\* str.lower() of one word
LowerWord(w) ==
    CASE w = "SOTA" -> "sota"
      [] w = "Breakthrough" -> "breakthrough"
      [] w = "GitHub.com" -> "github.com"
      [] OTHER -> w

\* str.lower()
Lower(ws) == [i \in 1..Len(ws) |-> LowerWord(ws[i])]

\* re.search(r'\b' + kw + r'\b', text) / `name in author`
Occurs(kw, text) ==
    \E i \in 0..(Len(text) - Len(kw)) :
        \A j \in 1..Len(kw) : text[i + j] = kw[j]

\* -------------------------------------------------------------- classifier
\* config/settings.py SIGNAL_WEIGHTS, as configured (mixed case)
SIGNAL_WEIGHTS ==
    [high_impact_keywords |->
        << <<"state-of-the-art">>, <<"SOTA">>, <<"breakthrough">>,
           <<"introduce">>, <<"new", "model">>, <<"open", "source">>,
           <<"dataset">>, <<"benchmark">>, <<"outperform">>, <<"record">> >>,
     curious_keywords |->
        << <<"experiment">>, <<"explore">>, <<"try">>, <<"attempt">>,
           <<"hack">>, <<"tool">>, <<"library">>, <<"implementation">>,
           <<"clone">>, <<"recreation">> >>,
     insight_keywords |->
        << <<"explain">>, <<"understand">>, <<"analysis">>, <<"review">>,
           <<"comparison">>, <<"survey">>, <<"trend">>, <<"thoughts">>,
           <<"opinion">>, <<"commentary">> >>]

LowerAll(kws) == [i \in 1..Len(kws) |-> Lower(kws[i])]

\* SignalClassifier.__init__: the attributes of a new classifier
SignalClassifier ==
    [high_impact_keywords |-> LowerAll(SIGNAL_WEIGHTS.high_impact_keywords),
     curious_keywords |-> LowerAll(SIGNAL_WEIGHTS.curious_keywords),
     insight_keywords |-> LowerAll(SIGNAL_WEIGHTS.insight_keywords),
     score_thresholds |->
        [github |-> [red |-> 100, yellow |-> 20],
         reddit |-> [red |-> 50, yellow |-> 10],
         hackernews |-> [red |-> 100, yellow |-> 20],
         arxiv |-> [red |-> 0, yellow |-> 0]]]

\* description[:200] applies above this length (lengths count words here)
DescLimit == 200

\* _get_analysis_text reading a None title or description as ''
get_analysis_text_orEmpty(it) ==
    LET title == Get(it, "title", PyStr(<<>>))
        description == Get(it, "description", PyStr(<<>>))
        t == IF title.k = "none" THEN PyStr(<<>>) ELSE title
        dd == IF description.k = "none" THEN PyStr(<<>>) ELSE description
    IN  IF t.k # "str" \/ dd.k # "str" THEN Raise
        ELSE LET d == Lower(dd.s)
                 dcut == IF Len(d) > DescLimit THEN SubSeq(d, 1, DescLimit)
                         ELSE d
             IN  Ok(Lower(t.s) \o dcut)

\* _get_analysis_text: the words of "{title} {description}".strip(), or an
\* AttributeError when title or description is not a string
get_analysis_text(it) ==
    LET title == Get(it, "title", PyStr(<<>>))
        description == Get(it, "description", PyStr(<<>>))
    IN  IF title.k # "str" \/ description.k # "str" THEN Raise
        ELSE LET d == Lower(description.s)
                 dcut == IF Len(d) > DescLimit THEN SubSeq(d, 1, DescLimit)
                         ELSE d
             IN  Ok(Lower(title.s) \o dcut)

\* _calculate_keyword_score without the final clamp to 1.0
calculate_keyword_score_noClamp(text, keywords) ==
    IF text = <<>> \/ keywords = <<>> THEN 0
    ELSE LET matches == Cardinality({i \in 1..Len(keywords) :
                                        Occurs(keywords[i], text)})
             total_keywords == Len(keywords)
             base_score == (matches * 100) \div total_keywords
             bonus == Min(matches * 10, 30)
         IN  base_score + bonus

\* _calculate_keyword_score, in hundredths
calculate_keyword_score(text, keywords) ==
    IF text = <<>> \/ keywords = <<>> THEN 0
    ELSE LET matches == Cardinality({i \in 1..Len(keywords) :
                                        Occurs(keywords[i], text)})
             total_keywords == Len(keywords)
             base_score == (matches * 100) \div total_keywords
             bonus == Min(matches * 10, 30)
         IN  Min(base_score + bonus, 100)

\* the comparison score >= n of a Python value with an int
IsNumber(v) == v.k = "int"

\* _calculate_source_score with the yellow floor compared strictly
calculate_source_score_strict(self, it) ==
    LET source == Get(it, "source", PyStr(<<>>))
        score == Get(it, "score", PyInt(0))
    IN  IF source.k = "list" THEN Raise
        ELSE IF ~(source.k = "str" /\ Len(source.s) = 1
                    /\ source.s[1] \in DOMAIN self.score_thresholds)
        THEN Ok(10)
        ELSE LET thresholds == self.score_thresholds[source.s[1]]
             IN  IF ~IsNumber(score) THEN Raise
                 ELSE IF score.n >= thresholds.red THEN Ok(100)
                 ELSE IF score.n > thresholds.yellow THEN Ok(60)
                 ELSE IF thresholds.yellow = 0 THEN Raise
                 ELSE Ok(Min((score.n * 40) \div thresholds.yellow, 40))

\* _calculate_source_score, in hundredths
calculate_source_score(self, it) ==
    LET source == Get(it, "source", PyStr(<<>>))
        score == Get(it, "score", PyInt(0))
    IN  IF source.k = "list" THEN Raise            \* unhashable key
        ELSE IF ~(source.k = "str" /\ Len(source.s) = 1
                    /\ source.s[1] \in DOMAIN self.score_thresholds)
        THEN Ok(10)
        ELSE LET thresholds == self.score_thresholds[source.s[1]]
             IN  IF ~IsNumber(score) THEN Raise     \* TypeError on >=
                 ELSE IF score.n >= thresholds.red THEN Ok(100)
                 ELSE IF score.n >= thresholds.yellow THEN Ok(60)
                 ELSE IF thresholds.yellow = 0 THEN Raise  \* ZeroDivisionError
                 ELSE Ok(Min((score.n * 40) \div thresholds.yellow, 40))

known_authors ==
    { <<"yann", "lecun">>, <<"geoffrey", "hinton">>, <<"yoshua", "bengio">>,
      <<"andrew", "ng">>, <<"fei-fei", "li">>, <<"demis", "hassabis">>,
      <<"ilya", "sutskever">>, <<"andrej", "karpathy">> }

authoritative_domains ==
    { <<"arxiv.org">>, <<"github.com">>, <<"openai.com">>, <<"deepmind.com">>,
      <<"research.google">>, <<"ai.facebook.com">>,
      <<"microsoft.com/research">> }

\* _calculate_authority_score counting an item with tags as authoritative
calculate_authority_score_tags(it) ==
    LET author == Get(it, "author", PyStr(<<>>))
        url == Get(it, "url", PyStr(<<>>))
        source == Get(it, "source", PyStr(<<>>))
        tags == Get(it, "tags", EmptyList)
    IN  IF author.k # "str" \/ url.k # "str" THEN Raise
        ELSE LET a == IF Lower(author.s) # <<>>
                         /\ \E name \in known_authors :
                                Occurs(name, Lower(author.s))
                      THEN 30 ELSE 0
                 u == IF \E domain \in authoritative_domains :
                            Occurs(domain, Lower(url.s))
                      THEN 20 ELSE 0
                 x == IF source = PyStr(<<"arxiv">>) \/ tags.s # <<>>
                      THEN 20 ELSE 0
             IN  Ok(Min(a + u + x, 100))

\* _calculate_authority_score, in hundredths
calculate_authority_score(it) ==
    LET author == Get(it, "author", PyStr(<<>>))
        url == Get(it, "url", PyStr(<<>>))
        source == Get(it, "source", PyStr(<<>>))
    IN  IF author.k # "str" \/ url.k # "str" THEN Raise
        ELSE LET a == IF Lower(author.s) # <<>>
                         /\ \E name \in known_authors :
                                Occurs(name, Lower(author.s))
                      THEN 30 ELSE 0
                 u == IF \E domain \in authoritative_domains :
                            Occurs(domain, Lower(url.s))
                      THEN 20 ELSE 0
                 x == IF source = PyStr(<<"arxiv">>) THEN 20 ELSE 0
             IN  Ok(Min(a + u + x, 100))

\* datetime.fromisoformat(s.replace('Z', '+00:00'))
fromisoformat(v) ==
    CASE v.s = <<"iso">> -> Ok(Naive(v.n))
      [] v.s = <<"isoZ">> -> Ok(Aware(v.n))
      [] OTHER -> Raise

\* the step function of _calculate_recency_score over the age in hours
RecencyOfAge(age_hours) ==
    IF age_hours < 6 THEN 100
    ELSE IF age_hours < 24 THEN 80
    ELSE IF age_hours < 72 THEN 60
    ELSE IF age_hours < 168 THEN 40
    ELSE 10

\* _calculate_recency_score, lines 189-206: the body of its try block
recency_try(published_date, nowv) ==
    LET parsed == IF published_date.k = "str"
                  THEN fromisoformat(published_date)
                  ELSE Ok(published_date)
    IN  IF ~parsed.ok THEN Raise                       \* ValueError
        ELSE IF parsed.v.k # "naive" THEN Raise        \* TypeError on now - d
        ELSE Ok(RecencyOfAge(nowv - parsed.v.n))

\* _calculate_recency_score, in hundredths; its own handler turns every
\* exception of the date arithmetic into 0.3
calculate_recency_score(it, nowv) ==
    LET published_date == Get(it, "published_date", None)
    IN  IF ~Truthy(published_date) THEN 30
        ELSE IF recency_try(published_date, nowv).ok
        THEN recency_try(published_date, nowv).v
        ELSE 30

\* a float that is exactly the literal q thousandths
Lit(q) == q * Ulp

Fallback == [tier |-> "green", confidence |-> Lit(100), raised |-> FALSE,
             caught |-> TRUE]

\* lines 59-77: the three tier scores as the floats the code computes
TierScores(hi, cur, ins, src, auth, rec, err) ==
    [red |-> (hi * 4 + src * 3 + auth * 2 + rec * 1) * Ulp + err.red,
     yellow |-> (cur * 4 + src * 2 + auth * 2 + rec * 2) * Ulp + err.yellow,
     green |-> (ins * 5 + auth * 3 + rec * 2) * Ulp + err.green]

\* Decide with the yellow test before the red test
Decide_yellowFirst(sc) ==
    LET max_score == Max(sc.red, Max(sc.yellow, sc.green))
    IN  IF sc.yellow = max_score /\ sc.yellow > Lit(200)
        THEN [tier |-> "yellow", confidence |-> Min(sc.yellow, Lit(1000))]
        ELSE IF sc.red = max_score /\ sc.red > Lit(300)
        THEN [tier |-> "red", confidence |-> Min(sc.red, Lit(1000))]
        ELSE [tier |-> "green",
              confidence |-> Min(Max(sc.green, Lit(100)), Lit(1000))]

\* Decide with the yellow branch requiring only yellow > 0.2, not the maximum
Decide_yellowNoMax(sc) ==
    LET max_score == Max(sc.red, Max(sc.yellow, sc.green))
    IN  IF sc.red = max_score /\ sc.red > Lit(300)
        THEN [tier |-> "red", confidence |-> Min(sc.red, Lit(1000))]
        ELSE IF sc.yellow > Lit(200)
        THEN [tier |-> "yellow", confidence |-> Min(sc.yellow, Lit(1000))]
        ELSE [tier |-> "green",
              confidence |-> Min(Max(sc.green, Lit(100)), Lit(1000))]

\* Decide reporting the confidence as a percentage
Decide_percent(sc) ==
    LET max_score == Max(sc.red, Max(sc.yellow, sc.green))
    IN  IF sc.red = max_score /\ sc.red > Lit(300)
        THEN [tier |-> "red", confidence |-> Min(sc.red * 100, Lit(100000))]
        ELSE IF sc.yellow = max_score /\ sc.yellow > Lit(200)
        THEN [tier |-> "yellow",
              confidence |-> Min(sc.yellow * 100, Lit(100000))]
        ELSE [tier |-> "green",
              confidence |-> Min(Max(sc.green * 100, Lit(100)), Lit(100000))]

\* Decide without the 0.1 floor under the green confidence
Decide_noFloor(sc) ==
    LET max_score == Max(sc.red, Max(sc.yellow, sc.green))
    IN  IF sc.red = max_score /\ sc.red > Lit(300)
        THEN [tier |-> "red", confidence |-> Min(sc.red, Lit(1000))]
        ELSE IF sc.yellow = max_score /\ sc.yellow > Lit(200)
        THEN [tier |-> "yellow", confidence |-> Min(sc.yellow, Lit(1000))]
        ELSE [tier |-> "green", confidence |-> Min(sc.green, Lit(1000))]

\* lines 80-90: the decision
Decide(sc) ==
    LET max_score == Max(sc.red, Max(sc.yellow, sc.green))
    IN  IF sc.red = max_score /\ sc.red > Lit(300)
        THEN [tier |-> "red", confidence |-> Min(sc.red, Lit(1000))]
        ELSE IF sc.yellow = max_score /\ sc.yellow > Lit(200)
        THEN [tier |-> "yellow", confidence |-> Min(sc.yellow, Lit(1000))]
        ELSE [tier |-> "green",
              confidence |-> Min(Max(sc.green, Lit(100)), Lit(1000))]

\* the sub-scores of an item, each a value or an exception
SubScores(self, it, nowv) ==
    LET text == get_analysis_text(it)
    IN  [text |-> text,
         hi |-> IF text.ok
                THEN Ok(calculate_keyword_score(text.v,
                                                self.high_impact_keywords))
                ELSE Raise,
         cur |-> IF text.ok
                 THEN Ok(calculate_keyword_score(text.v,
                                                 self.curious_keywords))
                 ELSE Raise,
         ins |-> IF text.ok
                 THEN Ok(calculate_keyword_score(text.v,
                                                 self.insight_keywords))
                 ELSE Raise,
         src |-> calculate_source_score(self, it),
         auth |-> calculate_authority_score(it),
         rec |-> Ok(calculate_recency_score(it, nowv))]

StepFailed(ss) == ~(ss.text.ok /\ ss.src.ok /\ ss.auth.ok)

\* the tier scores classify computes for an item none of whose steps raises
ScoresOf(self, it, nowv, err) ==
    LET ss == SubScores(self, it, nowv)
    IN  TierScores(ss.hi.v, ss.cur.v, ss.ins.v, ss.src.v, ss.auth.v,
                   ss.rec.v, err)

\* classify without its try/except: the exception of a step propagates
classify_noHandler(self, it, nowv, err) ==
    IF StepFailed(SubScores(self, it, nowv))
    THEN [tier |-> "none", confidence |-> 0, raised |-> TRUE,
          caught |-> FALSE]
    ELSE LET d == Decide(ScoresOf(self, it, nowv, err))
         IN  [tier |-> d.tier, confidence |-> d.confidence,
              raised |-> FALSE, caught |-> FALSE]

\* SignalClassifier.classify: the try body, and the handler's fallback
classify(self, it, nowv, err) ==
    IF StepFailed(SubScores(self, it, nowv)) THEN Fallback
    ELSE LET d == Decide(ScoresOf(self, it, nowv, err))
         IN  [tier |-> d.tier, confidence |-> d.confidence,
              raised |-> FALSE, caught |-> FALSE]

\* ------------------------------------------------- classifier: state machine
FpErrs == [red : -1..1, yellow : -1..1, green : -1..1]
ZeroErr == [red |-> 0, yellow |-> 0, green |-> 0]

Titles ==
    { <<"tutorial">>, <<"Breakthrough">>, <<"experiment">>,
      <<"breakthrough", "experiment">>, <<"analysis", "review">>,
      <<"SOTA", "breakthrough", "new", "model", "open", "source", "dataset",
        "benchmark", "record">> }
Sources == {"arxiv", "github", "reddit", "other"}
Scores == {0, 5, 10, 50, 100}
Authors == { <<"alice">>, <<"dr", "yann", "lecun">> }
Urls == { <<"https:", "example.com">>, <<"https:", "GitHub.com", "x">> }
Ages == {2, 10, 30, 100, 240}

MkItem(title, description, source, score, author, url, published_date) ==
    [title |-> title, description |-> description, source |-> source,
     score |-> score, author |-> author, url |-> url,
     published_date |-> published_date]

\* the items a scraper can produce
WellFormedItems ==
    { MkItem(PyStr(t), PyStr(<<>>), PyStr(<<s>>), PyInt(n), PyStr(a),
             PyStr(u), d) :
        t \in Titles, s \in Sources, n \in Scores, a \in Authors, u \in Urls,
        d \in {None} \cup {Naive(Now0 - g) : g \in Ages} }

BaseItem ==
    MkItem(PyStr(<<"breakthrough", "dataset", "benchmark">>),
           PyStr(<<"survey">>), PyStr(<<"github">>), PyInt(100),
           PyStr(<<"alice">>), PyStr(<<"https:", "github.com", "x">>),
           Naive(Now0 - 2))

EmptyItem == MkItem(Absent, Absent, Absent, Absent, Absent, Absent, Absent)

BadValues == {Absent, None, EmptyList, PyInt(7), PyStr(<<>>), PyStr(<<"x">>),
              PyInt(0 - 1), PyInt(0 - 1000), Aware(Now0 - 2), IsoStr(Now0 - 30),
              IsoStrZ(Now0 - 2)}

Fields == {"title", "description", "source", "score", "author", "url",
           "published_date"}

\* items with a missing, empty or wrongly typed field
MalformedItems ==
    { [BaseItem EXCEPT ![f] = v] : f \in Fields, v \in BadValues }
    \cup { [BaseItem EXCEPT !.source = PyStr(<<"arxiv">>), !.score = v] :
            v \in BadValues }
    \cup { [EmptyItem EXCEPT ![f] = v] : f \in Fields, v \in BadValues }
    \cup { MkItem(v, v, v, v, v, v, v) : v \in {Absent, None, PyStr(<<>>)} }

ClassifyInputs == WellFormedItems \cup MalformedItems

\* the components a specification does not exercise stay as constructed
IdleClassifier ==
    /\ item = EmptyItem
    /\ fperr = ZeroErr
    /\ classifier = SignalClassifier
    /\ calls = <<>>
IdleDB == rows = {} /\ ret = [op |-> "none"]
IdleProcs == procs = <<>>
IdleRun == run = [pc |-> "idle"]

InitClassify ==
    /\ item \in ClassifyInputs
    /\ now = Now0
    /\ fperr \in FpErrs
    /\ classifier = SignalClassifier
    /\ calls = <<>>
    /\ IdleDB /\ IdleProcs /\ IdleRun

\* a classify that writes its result into the item and drops the keyword
\* it matched first from the classifier
Classify_mutating ==
    /\ Len(calls) < MaxCalls
    /\ UNCHANGED <<now, fperr, rows, ret, procs, run>>
    /\ item' = [item EXCEPT !.title = PyStr(<<>>)]
    /\ classifier' = [classifier EXCEPT
                        !.high_impact_keywords = Tail(@)]
    /\ calls' = Append(calls, [arg |-> item, at |-> now, self |-> classifier,
                               res |-> classify(classifier, item, now, fperr),
                               ss |-> SubScores(classifier, item, now),
                               arg_after |-> item',
                               self_after |-> classifier'])

\* one call classifier.classify(item): it returns a pair and assigns to
\* neither the item nor the classifier's attributes
Classify ==
    /\ Len(calls) < MaxCalls
    /\ UNCHANGED <<item, classifier, now, fperr>>
    /\ calls' = Append(calls, [arg |-> item, at |-> now, self |-> classifier,
                               res |-> classify(classifier, item, now, fperr),
                               ss |-> SubScores(classifier, item, now),
                               arg_after |-> item',
                               self_after |-> classifier'])
    /\ UNCHANGED <<rows, ret, procs, run>>

NextClassify == Classify

SpecClassify == InitClassify /\ [][NextClassify]_vars

\* ------------------------------------------------------ classifier: claims
Tiers == {"red", "yellow", "green"}

CallIdx == 1..Len(calls)

\* the sub-scores call i computed
SubScoresAt(i) == calls[i].ss

\* the tier scores of the claims, from the sub-scores of call i:
\* red = 0.4 highImpact + 0.3 source + 0.2 authority + 0.1 recency,
\* yellow = 0.4 curious + 0.2 source + 0.2 authority + 0.2 recency,
\* green = 0.5 insight + 0.3 authority + 0.2 recency
ScoresAt(i) ==
    LET ss == calls[i].ss
    IN  [red |-> (4 * ss.hi.v + 3 * ss.src.v + 2 * ss.auth.v + ss.rec.v)
                    * Ulp + fperr.red,
         yellow |-> (4 * ss.cur.v + 2 * ss.src.v + 2 * ss.auth.v
                        + 2 * ss.rec.v) * Ulp + fperr.yellow,
         green |-> (5 * ss.ins.v + 3 * ss.auth.v + 2 * ss.rec.v)
                      * Ulp + fperr.green]

\* the date arithmetic of the recency step raised (and was absorbed there)
RecencyRaised(it, nowv) ==
    LET d == Get(it, "published_date", None)
    IN  Truthy(d) /\ ~recency_try(d, nowv).ok

AllEmptyOrMissing(it) ==
    \A f \in Fields : it[f] \in {Absent, None, PyStr(<<>>)}

DecisionTableAt(i) ==
    LET sc == ScoresAt(i)
        m == Max(sc.red, Max(sc.yellow, sc.green))
        res == calls[i].res
    IN  IF sc.red = m /\ sc.red > Lit(300)
        THEN res.tier = "red" /\ res.confidence = Min(sc.red, Lit(1000))
        ELSE IF sc.yellow = m /\ sc.yellow > Lit(200)
        THEN res.tier = "yellow" /\ res.confidence = Min(sc.yellow, Lit(1000))
        ELSE res.tier = "green"
             /\ res.confidence = Min(Max(sc.green, Lit(100)), Lit(1000))

RedIsMaxAt(i) ==
    ScoresAt(i).red >= ScoresAt(i).yellow /\ ScoresAt(i).red >= ScoresAt(i).green

YellowIsMaxAt(i) ==
    ScoresAt(i).yellow >= ScoresAt(i).red
    /\ ScoresAt(i).yellow >= ScoresAt(i).green

\* C5 as stated: the decision table holds for every combination of
\* sub-scores, and green is the result whenever red is the maximum but not
\* above 0.3.
C5_Original ==
    \A i \in CallIdx :
        ~StepFailed(SubScoresAt(i)) =>
            /\ DecisionTableAt(i)
            /\ (RedIsMaxAt(i) /\ ScoresAt(i).red <= Lit(300))
                => calls[i].res.tier = "green"

\* C5 amended: the decision table holds for every combination of
\* sub-scores; when red is the maximum but not above 0.3 the result is
\* green, unless yellow equals that maximum and is above 0.2, in which case
\* it is yellow.
C5_DecisionTable ==
    \A i \in CallIdx :
        ~StepFailed(SubScoresAt(i)) =>
            /\ DecisionTableAt(i)
            /\ (RedIsMaxAt(i) /\ ScoresAt(i).red <= Lit(300))
                => calls[i].res.tier =
                      IF YellowIsMaxAt(i) /\ ScoresAt(i).yellow > Lit(200)
                      THEN "yellow" ELSE "green"

\* red is the strict maximum, not above 0.3, and the result is green
C5_Witness ==
    \E i \in CallIdx :
        /\ ~StepFailed(SubScoresAt(i))
        /\ ScoresAt(i).red > ScoresAt(i).yellow
        /\ ScoresAt(i).red > ScoresAt(i).green
        /\ ScoresAt(i).red <= Lit(300)
        /\ calls[i].res.tier = "green"

\* C6: whenever the red score equals the yellow score, both are the maximum
\* of the three tier scores and both are above their thresholds, classify
\* returns red; so does a three-way tie.
C6_TieBreakRed ==
    \A i \in CallIdx :
        (/\ ~StepFailed(SubScoresAt(i))
         /\ ScoresAt(i).red = ScoresAt(i).yellow
         /\ RedIsMaxAt(i)
         /\ ScoresAt(i).red > Lit(300)
         /\ ScoresAt(i).yellow > Lit(200))
        => calls[i].res.tier = "red"

\* a reddit post with 10 upvotes, 30 hours old, one high-impact and one
\* curious keyword: red = yellow = 0.32 > green (also as Python floats)
C6_Witness ==
    \E i \in CallIdx :
        /\ calls[i].arg.source = PyStr(<<"reddit">>)
        /\ calls[i].arg.title = PyStr(<<"breakthrough", "experiment">>)
        /\ ScoresAt(i).red = ScoresAt(i).yellow
        /\ ScoresAt(i).red = Lit(320)
        /\ ScoresAt(i).green < ScoresAt(i).red
        /\ calls[i].res.tier = "red"

\* C7: the confidence classify returns is within [0.0, 1.0] for all items
C7_ConfidenceBounds ==
    \A i \in CallIdx :
        calls[i].res.confidence >= 0 /\ calls[i].res.confidence <= Lit(1000)

\* a classified item with a negative engagement score, and so a negative
\* source sub-score
C7_Witness ==
    \E i \in CallIdx :
        /\ ~StepFailed(SubScoresAt(i))
        /\ SubScoresAt(i).src.v < 0
        /\ calls[i].res.confidence >= Lit(100)

NotNullColumns == {"source", "source_id", "url", "title", "signal_type"}

FeedKey(r) == <<r.source, r.source_id>>

\* INTEGER PRIMARY KEY of SQLite: one more than the largest id in the table
NextId(db) ==
    IF db = {} THEN 1
    ELSE (CHOOSE m \in {r.id : r \in db} : \A r \in db : r.id <= m) + 1

\* add_feed_item lines 46-49: the rows the duplicate query matches
ExistingRows(db, item_data) ==
    {r \in db : /\ r.source = Get(item_data, "source", None)
                /\ r.source_id = Get(item_data, "source_id", None)}

\* add_feed_item lines 56-70: the FeedItem built from item_data, with the
\* id and the scraped_date default the commit gives it
NewFeedItem(db, item_data, nowv) ==
    [id |-> NextId(db),
     source |-> Get(item_data, "source", None),
     source_id |-> Get(item_data, "source_id", None),
     url |-> Get(item_data, "url", None),
     title |-> Get(item_data, "title", None),
     description |-> Get(item_data, "description", None),
     author |-> Get(item_data, "author", None),
     published_date |-> Get(item_data, "published_date", None),
     scraped_date |-> Naive(nowv),
     score |-> Get(item_data, "score", PyInt(0)),
     signal_type |-> Get(item_data, "signal_type", PyStr(<<"green">>)),
     confidence_score |-> Get(item_data, "confidence_score", PyFloat(0))]

\* the commit raises IntegrityError: a NOT NULL column is None
ViolatesNotNull(r) == \E c \in NotNullColumns : r[c].k = "none"

NoRow == [id |-> 0]

\* lines 72-77: db.add, db.commit, return feed_item; lines 79-82: rollback
InsertCommit(db, item_data, nowv) ==
    LET feed_item == NewFeedItem(db, item_data, nowv)
    IN  IF ViolatesNotNull(feed_item)
        THEN [db |-> db, result |-> NoRow]
        ELSE [db |-> db \cup {feed_item}, result |-> feed_item]

\* add_feed_item without the duplicate query
add_feed_item_noCheck(db, item_data, nowv) == InsertCommit(db, item_data, nowv)

\* add_feed_item that overwrites the classification of the existing row
add_feed_item_update(db, item_data, nowv) ==
    LET existing == ExistingRows(db, item_data)
    IN  IF existing # {}
        THEN [db |-> {IF r \in existing
                      THEN [r EXCEPT !.signal_type =
                                Get(item_data, "signal_type", r.signal_type)]
                      ELSE r : r \in db},
              result |-> NoRow]
        ELSE InsertCommit(db, item_data, nowv)

\* add_feed_item that replaces the existing row by the new item
add_feed_item_lastWins(db, item_data, nowv) ==
    InsertCommit(db \ ExistingRows(db, item_data), item_data, nowv)

\* DatabaseManager.add_feed_item, run without interleaving: the table after
\* the call and the value returned (NoRow stands for None)
add_feed_item(db, item_data, nowv) ==
    IF ExistingRows(db, item_data) # {}
    THEN [db |-> db, result |-> NoRow]
    ELSE InsertCommit(db, item_data, nowv)

\* the rows that pass the source and signal_type filters of a query; a
\* filter that is None (or empty) is not applied
FilterBy(db, source, signal_type) ==
    {r \in db : /\ Truthy(source) => r.source = source
                /\ Truthy(signal_type) => r.signal_type = signal_type}

\* the orders ORDER BY scraped_date DESC can give the rows of a set: rows
\* with equal dates come in any order
OrderByScrapedDesc(S) ==
    {o \in [1..Cardinality(S) -> S] :
        /\ \A i, j \in 1..Cardinality(S) : i # j => o[i] # o[j]
        /\ \A i, j \in 1..Cardinality(S) :
              i < j => o[i].scraped_date.n >= o[j].scraped_date.n}

\* .offset(offset).limit(limit)
OffsetLimit(o, offset, limit) ==
    SubSeq(o, offset + 1, Min(Len(o), offset + limit))

\* get_feed_items that compares the scraped date to the cutoff with >
get_feed_items_strict(db, limit, offset, source, signal_type, hours_back, nowv) ==
    LET filtered == FilterBy(db, source, signal_type)
        recent == IF Truthy(hours_back)
                  THEN {r \in filtered :
                           r.scraped_date.n > nowv - hours_back.n}
                  ELSE filtered
    IN  {OffsetLimit(o, offset, limit) : o \in OrderByScrapedDesc(recent)}

\* DatabaseManager.get_feed_items: the lists the query can return
get_feed_items(db, limit, offset, source, signal_type, hours_back, nowv) ==
    LET filtered == FilterBy(db, source, signal_type)
        recent == IF Truthy(hours_back)
                  THEN {r \in filtered :
                           r.scraped_date.n >= nowv - hours_back.n}
                  ELSE filtered
    IN  {OffsetLimit(o, offset, limit) : o \in OrderByScrapedDesc(recent)}

\* DatabaseManager.get_item_count: it has a source and a signal_type
\* parameter only
get_item_count(db, source, signal_type) ==
    Cardinality(FilterBy(db, source, signal_type))

\* cleanup_old_items that also deletes the rows scraped at the cutoff
cleanup_old_items_inclusive(db, days_to_keep, nowv) ==
    LET cutoff == nowv - 24 * days_to_keep
        old == {r \in db : r.scraped_date.n <= cutoff}
    IN  [db |-> db \ old, result |-> Cardinality(old)]

\* DatabaseManager.cleanup_old_items: the table after the call and the
\* number of rows deleted
cleanup_old_items(db, days_to_keep, nowv) ==
    LET cutoff == nowv - 24 * days_to_keep
        old == {r \in db : r.scraped_date.n < cutoff}
    IN  [db |-> db \ old, result |-> Cardinality(old)]

\* ------------------------------------------------- the items of an ingestion
\* (source, source_id) pairs: two share the source, two the source_id
FeedKeys == { <<"arxiv", "a">>, <<"github", "a">>, <<"github", "b">> }

\* a validated item of a scraper (_create_item_dict)
ScrapedItem(source, sid, title, score) ==
    [source |-> PyStr(<<source>>), source_id |-> PyStr(<<sid>>),
     url |-> PyStr(<<"https:", "example.com", sid>>),
     title |-> PyStr(title), description |-> PyStr(<<>>),
     author |-> PyStr(<<"alice">>), published_date |-> None,
     score |-> PyInt(score)]

\* the caller's item['signal_type'] = ..., item['confidence_score'] = ...
WithClassification(it, res) ==
    [f \in DOMAIN it \cup {"signal_type", "confidence_score"} |->
        IF f = "signal_type" THEN PyStr(<<res.tier>>)
        ELSE IF f = "confidence_score" THEN PyFloat(res.confidence)
        ELSE it[f]]

\* classified items as the callers of add_feed_item hand them over
DbItems ==
    { WithClassification(ScrapedItem(key[1], key[2], v.title, v.score),
                         classify(SignalClassifier,
                                  ScrapedItem(key[1], key[2], v.title,
                                              v.score),
                                  Now0, ZeroErr)) :
        key \in FeedKeys,
        v \in { [title |-> <<"tutorial">>, score |-> 0],
                [title |-> <<"breakthrough", "dataset">>, score |-> 100] } }

\* ----------------------------------------- database: sequential state machine
InitDB ==
    /\ rows = {}
    /\ now = Now0
    /\ ret = [op |-> "none"]
    /\ IdleClassifier /\ IdleProcs /\ IdleRun

\* the log of the calls also keeps the keys a cleanup has deleted and no
\* add has inserted since, and whether an add was of such a key
Purged == IF ret.op = "none" THEN {} ELSE ret.purged

\* one call db_manager.add_feed_item(item_data)
AddFeedItem ==
    \E item_data \in DbItems :
        LET out == add_feed_item(rows, item_data, now)
        IN  /\ rows' = out.db
            /\ ret' = [op |-> "add", arg |-> item_data,
                       result |-> out.result,
                       reingested |->
                           <<item_data.source, item_data.source_id>>
                               \in Purged,
                       purged |-> IF out.result = NoRow THEN Purged
                                  ELSE Purged \ {FeedKey(out.result)}]
            /\ UNCHANGED <<now, clstate, ccstate, runstate>>

\* one call db_manager.cleanup_old_items(days)
CleanupOldItems ==
    \E days_to_keep \in {0, 1} :
        LET out == cleanup_old_items(rows, days_to_keep, now)
        IN  /\ rows' = out.db
            /\ ret' = [op |-> "cleanup", arg |-> days_to_keep,
                       at |-> now, result |-> out.result,
                       purged |-> Purged
                           \cup {FeedKey(r) : r \in rows \ out.db}]
            /\ UNCHANGED <<now, clstate, ccstate, runstate>>

\* twelve hours pass
Tick ==
    /\ now < Now0 + 12 * MaxTicks
    /\ now' = now + 12
    /\ UNCHANGED <<rows, ret, clstate, ccstate, runstate>>

NextDB == AddFeedItem \/ CleanupOldItems \/ Tick

SpecDB == InitDB /\ [][NextDB]_vars

\* ------------------------------------------------------- database: claims
\* C1: in every state reachable by add_feed_item and cleanup_old_items calls
\* on an initially empty store, no two persisted rows share (source,
\* source_id).
C1_UniqueKey ==
    \A r1, r2 \in rows : FeedKey(r1) = FeedKey(r2) => r1 = r2

\* the store holds a row for every key and the last add was a duplicate
C1_Witness ==
    /\ Cardinality(rows) = Cardinality(FeedKeys)
    /\ ret.op = "add"
    /\ ret.result = NoRow

KeyExists(db, item_data) ==
    \E r \in db : FeedKey(r) = <<item_data.source, item_data.source_id>>

\* what C3 says of one add_feed_item(arg) step from table db to table db2
\* returning result
UpsertIfAbsent(db, arg, result, db2) ==
    /\ (result # NoRow) <=> ~KeyExists(db, arg)
    /\ KeyExists(db, arg) => db2 = db
    /\ ~KeyExists(db, arg) =>
          /\ db2 = db \cup {result}
          /\ result \notin db
          /\ FeedKey(result) = <<arg.source, arg.source_id>>
          /\ result.signal_type = arg.signal_type
          /\ result.confidence_score = arg.confidence_score
    /\ Cardinality({r \in db2 :
                      FeedKey(r) = <<arg.source, arg.source_id>>}) = 1

\* C3: add_feed_item returns the inserted row exactly when no row with the
\* item's (source, source_id) existed before the call; otherwise it returns
\* None, adds no row and leaves every row as it was; either way exactly one
\* row with that key is persisted afterwards.
C3_UpsertIfAbsent ==
    [][AddFeedItem => UpsertIfAbsent(rows, ret'.arg, ret'.result, rows')]_vars

\* a re-ingestion with another classification was reported "not new" and
\* the stored row kept its tier
C3_Witness ==
    /\ ret.op = "add"
    /\ ret.result = NoRow
    /\ \E r \in rows :
          /\ FeedKey(r) = <<ret.arg.source, ret.arg.source_id>>
          /\ r.signal_type # ret.arg.signal_type

\* ----------------------------------------- database: concurrent state machine
Procs == {1, 2}

InitConc ==
    /\ rows = {}
    /\ now = Now0
    /\ procs = [p \in Procs |-> [pc |-> "idle", ops |-> 0,
                                 item_data |-> EmptyItem,
                                 existing |-> FALSE, result |-> NoRow]]
    /\ ret = [op |-> "none"]
    /\ IdleClassifier /\ IdleRun

\* add_feed_item lines 43-49 in process p: open a session, run the
\* duplicate query
QueryExisting(p) ==
    /\ procs[p].pc \in {"idle", "returned"}
    /\ procs[p].ops < MaxOps
    /\ \E item_data \in DbItems :
          procs' = [procs EXCEPT ![p] =
                      [pc |-> "queried", ops |-> @.ops + 1,
                       item_data |-> item_data,
                       existing |-> ExistingRows(rows, item_data) # {},
                       result |-> NoRow]]
    /\ UNCHANGED <<rows, now, ret, clstate, runstate>>

\* add_feed_item lines 51-77 in process p: return None for a duplicate,
\* else insert, commit and return the row
InsertOrSkip(p) ==
    /\ procs[p].pc = "queried"
    /\ LET out == IF procs[p].existing
                  THEN [db |-> rows, result |-> NoRow]
                  ELSE InsertCommit(rows, procs[p].item_data, now)
       IN  /\ rows' = out.db
           /\ procs' = [procs EXCEPT ![p].pc = "returned",
                                     ![p].result = out.result]
    /\ UNCHANGED <<now, ret, clstate, runstate>>

NextConc == \E p \in Procs : QueryExisting(p) \/ InsertOrSkip(p)

SpecConc == InitConc /\ [][NextConc]_vars

\* C2: when two processes call add_feed_item for the same (source,
\* source_id) with the query and the insert+commit of each call interleaved,
\* exactly one row for that key is persisted and the other call reports no
\* insertion.
C2_ConcurrentIdempotent ==
    \A p, q \in Procs :
        (/\ p # q
         /\ procs[p].pc = "returned" /\ procs[q].pc = "returned"
         /\ procs[p].ops = 1 /\ procs[q].ops = 1
         /\ procs[p].item_data.source = procs[q].item_data.source
         /\ procs[p].item_data.source_id = procs[q].item_data.source_id)
        => /\ Cardinality({r \in rows :
                  FeedKey(r) = <<procs[p].item_data.source,
                                 procs[p].item_data.source_id>>}) = 1
           /\ (procs[p].result = NoRow) # (procs[q].result = NoRow)

\* ------------------------------------------ run_manual_scrape: state machine
\* lines 145-150: the scrapers, by the source name each gives its items
scrapers == <<"arxiv", "github", "reddit", "hackernews">>

\* the scrapers whose scrape() drops a record it has already seen: reddit
\* by seen_ids (reddit_scraper.py 250-257), hackernews by processed_ids
\* (hackernews_scraper.py 190-195); arxiv and github append every entry
DedupingScrapers == {"reddit", "hackernews"}

\* what one scraper.scrape() can return: validated items of its source; a
\* scraper that does not deduplicate can return two records with one
\* source_id
ScrapeResults(source) ==
    LET a == ScrapedItem(source, "a", <<"breakthrough", "dataset">>, 100)
        b == ScrapedItem(source, "b", <<"tutorial">>, 0)
        a2 == ScrapedItem(source, "a", <<"tutorial">>, 0)
    IN  { <<>>, <<a>>, <<a, b>> }
        \cup (IF source \in DedupingScrapers THEN {} ELSE { <<a, a2>> })

\* what scrape() does when the HTTP requests of its source fail: arxiv
\* (arxiv_scraper.py 130, 152-154) and github (github_scraper.py 156,
\* 179-181) re-raise; hackernews (_get_story_list, 153-162) and reddit
\* (_scrape_subreddit_web, 197-221) log the error and go on with an empty
\* list
OnFetchFailure(source) ==
    IF source \in {"arxiv", "github"} THEN "raise" ELSE "empty"

\* outcome of one scraper in the run: what the run showed for it (status),
\* the items scrape() returned, and whether its requests had failed
Pending == [status |-> "pending", items |-> <<>>, fetch_failed |-> FALSE]

\* Counter(item['source'] for item in all_items), lines 208-219
SourceCounts(all_items) ==
    [name \in {scrapers[j] : j \in 1..Len(scrapers)} |->
        Cardinality({j \in 1..Len(all_items) :
                        all_items[j].source = PyStr(<<name>>)})]

NoReport == [kind |-> "none"]

\* lines 205-219: the success message and the per-source metrics
SuccessReport(all_items, saved_count) ==
    [kind |-> "success", total |-> Len(all_items), saved |-> saved_count,
     source_counts |-> SourceCounts(all_items)]

\* a store an earlier run left: the github item "a", classified then
StoreOfEarlierRun ==
    add_feed_item({},
        WithClassification(ScrapedItem("github", "a", <<"tutorial">>, 0),
                           [tier |-> "green", confidence |-> Lit(100)]),
        Now0 - 12).db

InitRun ==
    /\ rows \in {{}, StoreOfEarlierRun}
    /\ now = Now0
    /\ run = [pc |-> "scrape", i |-> 1, all_items |-> <<>>,
              outcome |-> [j \in 1..Len(scrapers) |-> Pending],
              saved_count |-> 0, k |-> 0, report |-> NoReport]
    /\ ret = [op |-> "none"]
    /\ item = EmptyItem
    /\ fperr \in FpErrs
    /\ classifier = SignalClassifier
    /\ calls = <<>>
    /\ IdleProcs

\* lines 188-234: where the run goes when the for loop over the scrapers
\* ends, or stays in the loop
AfterScrape(i, all_items) ==
    IF i < Len(scrapers) THEN "scrape"
    ELSE IF all_items # <<>> THEN "persist"
    ELSE "done"

\* lines 233-234: "No items found from any source" when the loop ends with
\* an empty all_items
ReportAfterScrape(i, all_items) ==
    IF i = Len(scrapers) /\ all_items = <<>>
    THEN [kind |-> "no_items"] ELSE NoReport

\* lines 164-178: scraper.scrape() of scraper i returns; its items are
\* appended to all_items
ScrapeReturns ==
    /\ run.pc = "scrape"
    /\ \E items \in ScrapeResults(scrapers[run.i]) :
          run' = [run EXCEPT
                    !.all_items = @ \o items,
                    !.outcome[run.i] =
                        [status |-> IF items # <<>> THEN "found" ELSE "empty",
                         items |-> items, fetch_failed |-> FALSE],
                    !.i = @ + 1,
                    !.pc = AfterScrape(run.i, run.all_items \o items),
                    !.report = ReportAfterScrape(run.i,
                                                 run.all_items \o items)]
    /\ UNCHANGED <<rows, now, ret, clstate, ccstate>>

\* a run in which an exception of scrape() is not caught per scraper but
\* by the handler of the whole run
ScrapeRaises_abort ==
    /\ run.pc = "scrape"
    /\ OnFetchFailure(scrapers[run.i]) = "raise"
    /\ run' = [run EXCEPT
                 !.outcome[run.i] = [status |-> "error", items |-> <<>>,
                                     fetch_failed |-> TRUE],
                 !.pc = "failed"]
    /\ UNCHANGED <<rows, now, ret, clstate, ccstate>>

\* lines 180-186: the requests of scraper i fail and its scrape() raises;
\* the error is shown and the loop continues
ScrapeRaises ==
    /\ run.pc = "scrape"
    /\ OnFetchFailure(scrapers[run.i]) = "raise"
    /\ run' = [run EXCEPT
                 !.outcome[run.i] = [status |-> "error", items |-> <<>>,
                                     fetch_failed |-> TRUE],
                 !.i = @ + 1,
                 !.pc = AfterScrape(run.i, run.all_items),
                 !.report = ReportAfterScrape(run.i, run.all_items)]
    /\ UNCHANGED <<rows, now, ret, clstate, ccstate>>

\* lines 167, 176-178: the requests of scraper i fail, its scrape() logs
\* the error and returns an empty list; the run shows "No items found" for
\* it and the loop continues
ScrapeSwallowsFailure ==
    /\ run.pc = "scrape"
    /\ OnFetchFailure(scrapers[run.i]) = "empty"
    /\ run' = [run EXCEPT
                 !.outcome[run.i] = [status |-> "empty", items |-> <<>>,
                                     fetch_failed |-> TRUE],
                 !.i = @ + 1,
                 !.pc = AfterScrape(run.i, run.all_items),
                 !.report = ReportAfterScrape(run.i, run.all_items)]
    /\ UNCHANGED <<rows, now, ret, clstate, ccstate>>

\* the script is interrupted at the head of the loop over the scrapers
\* (lines 155-157, the st.* calls outside the per-scraper try): nothing
\* after the loop runs
Abort ==
    /\ run.pc = "scrape"
    /\ run' = [run EXCEPT !.pc = "aborted"]
    /\ UNCHANGED <<rows, now, ret, clstate, ccstate>>

\* a run that counts every item it hands to add_feed_item as saved
ClassifyAndSave_countAll ==
    /\ run.pc = "persist"
    /\ LET it == run.all_items[run.k + 1]
           res == classify(classifier, it, now, fperr)
           classified == WithClassification(it, res)
           out == add_feed_item(rows, classified, now)
           last == run.k + 1 = Len(run.all_items)
           all_items == [run.all_items EXCEPT ![run.k + 1] = classified]
           saved_count == run.saved_count + 1
       IN  /\ rows' = out.db
           /\ run' = [run EXCEPT
                        !.all_items = all_items,
                        !.saved_count = saved_count,
                        !.k = @ + 1,
                        !.pc = IF last THEN "done" ELSE "persist",
                        !.report = IF last
                                   THEN SuccessReport(all_items, saved_count)
                                   ELSE NoReport]
    /\ UNCHANGED <<now, ret, clstate, ccstate>>

\* lines 195-219: one iteration of the loop over all_items: classify the
\* item, store the result in it, add it to the database, count it if new;
\* after the last iteration the totals and the per-source counts are shown
ClassifyAndSave ==
    /\ run.pc = "persist"
    /\ LET it == run.all_items[run.k + 1]
           res == classify(classifier, it, now, fperr)
           classified == WithClassification(it, res)
           out == add_feed_item(rows, classified, now)
           last == run.k + 1 = Len(run.all_items)
           all_items == [run.all_items EXCEPT ![run.k + 1] = classified]
           saved_count == IF out.result # NoRow THEN run.saved_count + 1
                          ELSE run.saved_count
       IN  /\ rows' = out.db
           /\ run' = [run EXCEPT
                        !.all_items = all_items,
                        !.saved_count = saved_count,
                        !.k = @ + 1,
                        !.pc = IF last THEN "done" ELSE "persist",
                        !.report = IF last
                                   THEN SuccessReport(all_items, saved_count)
                                   ELSE NoReport]
    /\ UNCHANGED <<now, ret, clstate, ccstate>>

NextRun ==
    \/ ScrapeReturns
    \/ ScrapeRaises
    \/ ScrapeSwallowsFailure
    \/ Abort
    \/ ClassifyAndSave

SpecRun == InitRun /\ [][NextRun]_vars

\* ---------------------------------------------- run_manual_scrape: claims
RunEnded == run.pc \in {"done", "failed"}

ScraperIdx == 1..Len(scrapers)

Persisted(it) ==
    \E r \in rows : /\ FeedKey(r) = <<it.source, it.source_id>>
                    /\ r.signal_type.s[1] \in Tiers

\* C9: a scrape() that raises does not abort the run: when the run ends,
\* every configured source has been fetched, and every item of every source
\* that returned items has been classified and is persisted.
C9_FailureIsolated ==
    RunEnded =>
        /\ \A i \in ScraperIdx : run.outcome[i].status # "pending"
        /\ \A i \in ScraperIdx :
              \A j \in 1..Len(run.outcome[i].items) :
                  Persisted(run.outcome[i].items[j])
        /\ \A j \in 1..Len(run.all_items) :
              "signal_type" \in DOMAIN run.all_items[j]

\* the run ended, the second scraper had raised, and the items of the
\* first and of the third scraper were saved as new rows
C9_Witness ==
    /\ run.pc = "done"
    /\ run.outcome[2].status = "error"
    /\ run.outcome[1].status = "found"
    /\ run.outcome[3].status = "found"
    /\ run.saved_count =
          Len(run.outcome[1].items) + Len(run.outcome[3].items)
          + Len(run.outcome[4].items)
    /\ \A j \in 1..Len(run.all_items) : Persisted(run.all_items[j])

\* C10: the batch of each source is completely classified and persisted
\* before the fetch of the next source begins.
C10_BatchBeforeNextFetch ==
    (run.pc = "scrape" /\ run.i > 1) =>
        \A i \in 1..(run.i - 1) :
            \A j \in 1..Len(run.outcome[i].items) :
                Persisted(run.outcome[i].items[j])

\* the rows this run inserted: their scraped_date is the instant of the run
\* (the store of an earlier run is older)
NewRows == {r \in rows : r.scraped_date = Naive(now)}

\* C11: when a run is aborted between two sources, the items of every
\* source fetched before the abort are persisted, and no item of the source
\* that was still to be fetched is.
C11_AbortKeepsCompleted ==
    run.pc = "aborted" =>
        /\ \A i \in 1..(run.i - 1) :
              \A j \in 1..Len(run.outcome[i].items) :
                  Persisted(run.outcome[i].items[j])
        /\ \A r \in NewRows : r.source # PyStr(<<scrapers[run.i]>>)

\* the position of the first record of all_items with the (source,
\* source_id) of record j
FirstIdxWithKey(all_items, j) ==
    CHOOSE f \in 1..j :
        /\ all_items[f].source = all_items[j].source
        /\ all_items[f].source_id = all_items[j].source_id
        /\ \A g \in 1..(f - 1) :
              \/ all_items[g].source # all_items[j].source
              \/ all_items[g].source_id # all_items[j].source_id

FirstWithKey(all_items, j) == all_items[FirstIdxWithKey(all_items, j)]

\* C12: when the run ends, every (source, source_id) that occurs in the
\* batch, once or several times, has exactly one persisted row; a row this
\* run inserted carries the fields of the first record with that key in
\* input order, and the later records were dropped without an error: the
\* run ended normally and counted one saved item per inserted row.
C12_DedupWithinBatch ==
    run.pc = "done" =>
        /\ \A j \in 1..Len(run.all_items) :
              LET it == run.all_items[j]
                  stored == {r \in rows :
                               FeedKey(r) = <<it.source, it.source_id>>}
              IN  /\ Cardinality(stored) = 1
                  /\ \A r \in stored \cap NewRows :
                        LET first == FirstWithKey(run.all_items, j)
                        IN  /\ r.title = first.title
                            /\ r.score = first.score
                            /\ r.signal_type = first.signal_type
        /\ run.saved_count = Cardinality(NewRows)

\* the run ended; the batch held two records with one key and different
\* titles; the first of them is the one row stored for the key
C12_Witness ==
    /\ run.pc = "done"
    /\ \E j, k \in 1..Len(run.all_items) :
          /\ j < k
          /\ run.all_items[j].source = run.all_items[k].source
          /\ run.all_items[j].source_id = run.all_items[k].source_id
          /\ run.all_items[j].title # run.all_items[k].title
          /\ \E r \in NewRows :
                /\ FeedKey(r) = <<run.all_items[j].source,
                                  run.all_items[j].source_id>>
                /\ r.title = run.all_items[j].title
    /\ run.saved_count < Len(run.all_items)

\* C17: the statistics a run reports agree with the store: the reported
\* number of saved items is the number of rows the run inserted, the items
\* dropped as duplicates are the rest of the reported total, and the
\* per-source counts sum to the number of items the scrapers returned.
C17_StatisticsConsistent ==
    (run.pc = "done" /\ run.report.kind = "success") =>
        LET counts == run.report.source_counts
            fetched == Len(run.outcome[1].items) + Len(run.outcome[2].items)
                       + Len(run.outcome[3].items)
                       + Len(run.outcome[4].items)
        IN  /\ run.report.saved = Cardinality(NewRows)
            /\ run.report.total - run.report.saved =
                  Cardinality({j \in 1..Len(run.all_items) :
                      \/ \E r \in rows \ NewRows :
                            FeedKey(r) = <<run.all_items[j].source,
                                           run.all_items[j].source_id>>
                      \/ FirstIdxWithKey(run.all_items, j) # j})
            /\ run.report.total = fetched
            /\ counts["arxiv"] + counts["github"] + counts["reddit"]
                  + counts["hackernews"] = fetched
            /\ \A i \in ScraperIdx :
                  counts[scrapers[i]] = Len(run.outcome[i].items)

\* a run reported fewer saved items than it fetched, some saved, some
\* dropped: one a duplicate of the earlier run's row, one a duplicate
\* within the batch
C17_Witness ==
    /\ run.pc = "done"
    /\ run.report.kind = "success"
    /\ run.report.saved > 0
    /\ run.report.total - run.report.saved = 2
    /\ rows \ NewRows # {}

\* C18: when the requests of a source fail, the run reports the source as
\* failed, not as a source that returned no items.
C18_FailedSourceReported ==
    \A i \in ScraperIdx :
        run.outcome[i].fetch_failed => run.outcome[i].status = "error"

\* ------------------------------------------------------ scrapers: adapters
\* BaseScraper._clean_text: "" for a missing or empty text, else the words
\* of the text joined by single blanks
clean_text(text) ==
    IF ~Truthy(text) THEN PyStr(<<>>) ELSE PyStr(text.s)

\* BaseScraper._create_item_dict, with the identifier the adapter keeps in
\* extra_data ('arxiv_id', 'github_id', 'reddit_id', 'hn_id')
create_item_dict(source_name, source_id, url, title, extra_id) ==
    [source |-> PyStr(<<source_name>>), source_id |-> source_id,
     url |-> url, title |-> title, description |-> PyStr(<<>>),
     author |-> PyStr(<<"alice">>), published_date |-> None,
     score |-> PyInt(0), extra_id |-> extra_id]

\* BaseScraper.validate_item
validate_item(it) ==
    \A field \in {"source_id", "url", "title"} :
        Truthy(Get(it, field, None))

\* prefix + text, as an f-string builds it
Prefixed(prefix, text) == PyStr(<<prefix>> \o text.s)

\* ArxivScraper._parse_arxiv_entry: entry.id and entry.title are attribute
\* reads (AttributeError when the entry lacks them); the id is the last
\* path segment of entry.id and the URL is built from it
parse_arxiv_entry(entry) ==
    IF entry.id.k = "absent" \/ entry.title.k = "absent" THEN Raise
    ELSE LET arxiv_id == IF entry.id.s = <<>> THEN PyStr(<<>>)
                         ELSE PyStr(<<entry.id.s[Len(entry.id.s)]>>)
         IN  Ok(create_item_dict("arxiv", Prefixed("arxiv_", arxiv_id),
                                 Prefixed("https://arxiv.org/abs/", arxiv_id),
                                 clean_text(entry.title), arxiv_id))

\* GitHubScraper._parse_repo: the title is "full_name - description", the
\* description of a repository without one is "No description provided"
parse_repo(repo_data) ==
    LET repo_id == Get(repo_data, "id", PyStr(<<>>))
        full_name == Get(repo_data, "title", PyStr(<<>>))
        description == PyStr(<<"No", "description", "provided">>)
        title == PyStr(full_name.s \o <<"-">> \o description.s)
    IN  Ok(create_item_dict("github", Prefixed("github_", repo_id),
                            Get(repo_data, "url", PyStr(<<>>)),
                            title, repo_id))

\* RedditScraper._parse_reddit_post_web: the URL is the site followed by
\* the permalink
parse_reddit_post_web(data) ==
    LET post_id == Get(data, "id", PyStr(<<>>))
        permalink == Get(data, "url", PyStr(<<>>))
    IN  Ok(create_item_dict("reddit", Prefixed("reddit_", post_id),
                            Prefixed("https://www.reddit.com", permalink),
                            clean_text(Get(data, "title", PyStr(<<>>))),
                            post_id))

\* HackerNewsScraper._parse_hn_story: the external URL if the story has
\* one, else the URL of the discussion
parse_hn_story(story_data) ==
    LET story_id == Get(story_data, "id", PyStr(<<>>))
        external_url == Get(story_data, "url", PyStr(<<>>))
        hn_url == Prefixed("https://news.ycombinator.com/item?id=", story_id)
    IN  Ok(create_item_dict("hackernews", Prefixed("hn_", story_id),
                            IF Truthy(external_url) THEN external_url
                            ELSE hn_url,
                            clean_text(Get(story_data, "title", PyStr(<<>>))),
                            story_id))

parse(source, record) ==
    CASE source = "arxiv" -> parse_arxiv_entry(record)
      [] source = "github" -> parse_repo(record)
      [] source = "reddit" -> parse_reddit_post_web(record)
      [] source = "hackernews" -> parse_hn_story(record)

\* the loop over the records in scrape(): a record whose parse raises is
\* skipped, a parsed item is appended when validate_item accepts it;
\* hackernews skips a story whose listed id it has processed before.  The
\* result pairs each appended item with the record it was made from.
RECURSIVE scrape_loop(_, _, _, _, _)
scrape_loop(source, records, k, out, processed_ids) ==
    IF k > Len(records) THEN out
    ELSE LET record == records[k]
             parsed == parse(source, record)
         IN  IF source = "hackernews" /\ record.listed \in processed_ids
             THEN scrape_loop(source, records, k + 1, out, processed_ids)
             ELSE IF parsed.ok /\ validate_item(parsed.v)
             THEN scrape_loop(source, records, k + 1,
                              Append(out, [record |-> record,
                                           item |-> parsed.v]),
                              processed_ids \cup {record.listed})
             ELSE scrape_loop(source, records, k + 1, out,
                              processed_ids \cup {record.listed})

\* RedditScraper.scrape lines 250-257: keep the first item of each
\* reddit_id, drop the items without one
RECURSIVE unique_items(_, _, _, _)
unique_items(all_items, k, out, seen_ids) ==
    IF k > Len(all_items) THEN out
    ELSE LET reddit_id == all_items[k].item.extra_id
         IN  IF Truthy(reddit_id) /\ reddit_id \notin seen_ids
             THEN unique_items(all_items, k + 1, Append(out, all_items[k]),
                               seen_ids \cup {reddit_id})
             ELSE unique_items(all_items, k + 1, out, seen_ids)

\* scrape() returning every appended item, cross-posts included
scrape_noDedup(source, records) ==
    scrape_loop(source, records, 1, <<>>, {})

\* scrape() of the scraper of a source, given the records its requests
\* returned
scrape(source, records) ==
    LET appended == scrape_loop(source, records, 1, <<>>, {})
    IN  IF source = "reddit" THEN unique_items(appended, 1, <<>>, {})
        ELSE appended

\* the records of a source: identifier, link and title each present, empty
\* or missing; for hackernews also the id under which the story is listed
RawIds == {Absent, PyStr(<<>>), PyStr(<<"r1">>), PyStr(<<"r2">>)}
RawUrls == {Absent, PyStr(<<"https:", "example.com">>)}
RawTitles == {Absent, PyStr(<<>>), PyStr(<<"breakthrough">>),
              PyStr(<<"experiment">>)}

\* the item API of Hacker News answers the request for a listed id with
\* the story of that id, if with an id at all
Records(source) ==
    IF source = "hackernews"
    THEN UNION { [listed : {l}, id : {Absent, PyStr(<<>>), PyStr(<<l>>)},
                  url : RawUrls, title : RawTitles] : l \in {"s1", "s2"} }
    ELSE [listed : {"s1"}, id : RawIds, url : RawUrls, title : RawTitles]

RecordLists(source) ==
    UNION {[1..n -> Records(source)] : n \in 0..MaxRecords}

InitScrape ==
    /\ now = Now0
    /\ IdleClassifier /\ IdleDB /\ IdleProcs /\ IdleRun

\* one call scraper.scrape() of the scraper of a source
Scrape ==
    /\ ret.op = "none"
    /\ \E source \in {scrapers[j] : j \in 1..Len(scrapers)} :
          \E records \in RecordLists(source) :
              LET out == scrape(source, records)
              IN  ret' = [op |-> "scrape", source |-> source,
                          arg |-> records,
                          from |-> [j \in 1..Len(out) |-> out[j].record],
                          result |-> [j \in 1..Len(out) |-> out[j].item]]
    /\ UNCHANGED <<rows, now, clstate, ccstate, runstate>>

NextScrape == Scrape

SpecScrape == InitScrape /\ [][NextScrape]_vars

\* ------------------------------------------------------- scrapers: claims
\* the fields a source record carries itself: an arxiv entry and a hacker
\* news story have a link that is built from the identifier
RecordFields(source) ==
    IF source \in {"github", "reddit"} THEN {"id", "url", "title"}
    ELSE {"id", "title"}

RecordComplete(source, record) ==
    \A f \in RecordFields(source) : Truthy(record[f])

\* C13: validate_item rejects an item exactly when its source_id, url or
\* title is absent or empty, and every item a scrape() returns was made
\* from a record that has its identifier, its link and its title.
C13_ValidationGate ==
    ret.op = "scrape" =>
        /\ \A j \in 1..Len(ret.arg) :
              LET parsed == parse(ret.source, ret.arg[j])
              IN  parsed.ok =>
                    (validate_item(parsed.v) <=>
                        /\ parsed.v.source_id \notin {None, PyStr(<<>>)}
                        /\ parsed.v.url \notin {None, PyStr(<<>>)}
                        /\ parsed.v.title \notin {None, PyStr(<<>>)})
        /\ \A j \in 1..Len(ret.result) :
              RecordComplete(ret.source, ret.from[j])

\* the items the Reddit adapter collected before it removes cross-posts
Collected == scrape_loop("reddit", ret.arg, 1, <<>>, {})

\* the positions of Collected that hold the first item of a reddit id
FirstOfId ==
    {k \in 1..Len(Collected) :
        /\ Truthy(Collected[k].item.extra_id)
        /\ \A h \in 1..(k - 1) :
              Collected[h].item.extra_id # Collected[k].item.extra_id}

\* the j-th smallest position of FirstOfId
NthFirst(j) ==
    CHOOSE k \in FirstOfId : Cardinality({h \in FirstOfId : h < k}) = j - 1

C24_WitnessReddit ==
    /\ ret.op = "scrape"
    /\ ret.source = "reddit"
    /\ Len(ret.arg) = 2
    /\ ret.arg[1].id = ret.arg[2].id
    /\ ret.arg[1].title # ret.arg[2].title
    /\ RecordComplete("reddit", ret.arg[1])
    /\ RecordComplete("reddit", ret.arg[2])
    /\ ret.from = <<ret.arg[1]>>

\* --------------------------------------------- database: the read queries
\* the stores the queries are run on: up to three items, of the keys in
\* this order, added one after the other, twelve hours or no time apart,
\* the last one at most a day before the query runs
AddTimes == {Now0 - 24, Now0 - 12, Now0}
AddOrder == << <<"arxiv", "a">>, <<"github", "a">>, <<"github", "b">> >>

RECURSIVE AddAll(_, _)
AddAll(db, adds) ==
    IF adds = <<>> THEN db
    ELSE AddAll(add_feed_item(db, adds[1].item_data, adds[1].at).db,
                Tail(adds))

QueryStores ==
    {AddAll({}, adds) :
        adds \in {a \in UNION {[1..n -> [item_data : DbItems, at : AddTimes]] :
                                 n \in 0..Len(AddOrder)} :
                    /\ \A i \in DOMAIN a :
                          AddOrder[i] = <<a[i].item_data.source.s[1],
                                          a[i].item_data.source_id.s[1]>>
                    /\ \A i, j \in DOMAIN a :
                          i < j => a[i].at <= a[j].at}}

InitQuery ==
    /\ rows \in QueryStores
    /\ now = Now0
    /\ ret = [op |-> "none"]
    /\ IdleClassifier /\ IdleProcs /\ IdleRun

\* the filter values the feed page passes (streamlit_app.py 257-277): None
\* or a source, None or a tier, None or a number of hours
SourceFilters == {None, PyStr(<<"arxiv">>), PyStr(<<"github">>)}
SignalFilters == {None} \cup {PyStr(<<t>>) : t \in Tiers}
HoursBack == {None, PyInt(12), PyInt(24)}
Pages == { [limit |-> 50, offset |-> 0], [limit |-> 1, offset |-> 0],
           [limit |-> 1, offset |-> 1] }

\* one call db_manager.get_feed_items(limit, offset, source, signal_type,
\* hours_back); the table before and after the call is kept with the result
GetFeedItems ==
    \E source \in SourceFilters, signal_type \in SignalFilters,
       hours_back \in HoursBack, page \in Pages :
        \E items \in get_feed_items(rows, page.limit, page.offset, source,
                                    signal_type, hours_back, now) :
            /\ UNCHANGED <<rows, now, clstate, ccstate, runstate>>
            /\ ret' = [op |-> "get_feed_items",
                       arg |-> [limit |-> page.limit, offset |-> page.offset,
                                source |-> source,
                                signal_type |-> signal_type,
                                hours_back |-> hours_back],
                       at |-> now, result |-> items,
                       before |-> rows, after |-> rows']

\* one call db_manager.get_item_count(source, signal_type)
GetItemCount ==
    \E source \in SourceFilters, signal_type \in SignalFilters :
        /\ ret' = [op |-> "get_item_count",
                   arg |-> [source |-> source, signal_type |-> signal_type],
                   at |-> now,
                   result |-> get_item_count(rows, source, signal_type)]
        /\ UNCHANGED <<rows, now, clstate, ccstate, runstate>>

NextQuery == GetFeedItems \/ GetItemCount

SpecQuery == InitQuery /\ [][NextQuery]_vars

\* ------------------------------------------------ database: query claims
\* the rows of db that satisfy the filters of q that are given (not None),
\* at the instant nowv
Satisfying(db, q, nowv) ==
    {r \in db :
        /\ q.source # None => r.source = q.source
        /\ q.signal_type # None => r.signal_type = q.signal_type
        /\ q.hours_back # None =>
              r.scraped_date.n >= nowv - q.hours_back.n}

\* items is a page of the rows of S in the order newest first: offset rows
\* of S, none older than a row outside them, are skipped; items holds the
\* next limit rows, or all that are left, without repetition, newest first
IsPageOf(items, S, offset, limit) ==
    \E skipped \in SUBSET S :
        LET shown == {items[i] : i \in 1..Len(items)}
            rest == (S \ skipped) \ shown
        IN  /\ Cardinality(skipped) = Min(offset, Cardinality(S))
            /\ shown \subseteq S \ skipped
            /\ Cardinality(shown) = Len(items)
            /\ Len(items) = Min(limit, Cardinality(S \ skipped))
            /\ \A i, j \in 1..Len(items) :
                  i < j => items[i].scraped_date.n >= items[j].scraped_date.n
            /\ \A x \in skipped, y \in S \ skipped :
                  x.scraped_date.n >= y.scraped_date.n
            /\ \A x \in shown, y \in rest :
                  x.scraped_date.n >= y.scraped_date.n

\* C14: every get_feed_items call returns exactly the persisted rows that
\* satisfy all the filters given, newest scraped first, without the first
\* offset of them and at most limit of them, and leaves the store as it was.
C14_FilteredOrderedPage ==
    ret.op = "get_feed_items" =>
        /\ ret.after = ret.before
        /\ IsPageOf(ret.result, Satisfying(ret.before, ret.arg, ret.at),
                    ret.arg.offset, ret.arg.limit)

\* a query with all three filters given and an offset returned a row, while
\* the store holds a row of another source and a row too old for the query
C14_Witness ==
    /\ ret.op = "get_feed_items"
    /\ ret.arg.source # None
    /\ ret.arg.signal_type # None
    /\ ret.arg.hours_back # None
    /\ ret.arg.offset = 1
    /\ Len(ret.result) = 1
    /\ \E r \in rows : r.source # ret.arg.source
    /\ \E r \in rows : r.scraped_date.n = ret.at - ret.arg.hours_back.n

\* C15: for every combination of source, tier and maximum age, the count
\* query returns the number of items the item query returns, unpaginated,
\* for the same filters.
C15_CountSameFilters ==
    ret.op = "get_item_count" =>
        \A hours_back \in HoursBack :
            \A items \in get_feed_items(rows, Cardinality(rows), 0,
                                        ret.arg.source, ret.arg.signal_type,
                                        hours_back, ret.at) :
                ret.result = Len(items)

\* what C16 says of one cleanup_old_items(days) step at the instant nowv
\* from table db to table db2 returning deleted
PurgesOlderThan(db, days, nowv, deleted, db2) ==
    LET cutoff == nowv - 24 * days
    IN  /\ db2 \subseteq db
        /\ \A r \in db : r \notin db2 <=> r.scraped_date.n < cutoff
        /\ deleted = Cardinality(db) - Cardinality(db2)

\* C16: cleanup_old_items(days) deletes exactly the rows scraped strictly
\* before now minus days, returns how many it deleted, and leaves every
\* other row as it was.
C16_CleanupExactlyOld ==
    [][CleanupOldItems =>
         PurgesOlderThan(rows, ret'.arg, now, ret'.result, rows')]_vars

\* a cleanup deleted a row and kept a row that was scraped exactly at the
\* cutoff
C16_Witness ==
    /\ ret.op = "cleanup"
    /\ ret.result > 0
    /\ \E r \in rows : r.scraped_date.n = ret.at - 24 * ret.arg

\* C29: when a cleanup has deleted the row of a key, a later add_feed_item
\* of an item with that key inserts a row again and returns it as new, and
\* afterwards no two rows share a key.
C29_PurgeThenReingest ==
    [][(AddFeedItem
          /\ <<ret'.arg.source, ret'.arg.source_id>> \in Purged)
        => /\ ret'.result # NoRow
           /\ ret'.result \in rows' \ rows
           /\ FeedKey(ret'.result) = <<ret'.arg.source, ret'.arg.source_id>>
           /\ \A r1, r2 \in rows' : FeedKey(r1) = FeedKey(r2) => r1 = r2]_vars

\* an item whose row a cleanup had deleted was added again, as new
C29_Witness ==
    /\ ret.op = "add"
    /\ ret.reingested
    /\ ret.result # NoRow
    /\ ret.result \in rows
    /\ FeedKey(ret.result) = <<ret.arg.source, ret.arg.source_id>>

\* ------------------------------------------- classifier: the arxiv scenario
\* C20: an item of source arxiv with engagement score 0, an empty
\* description and a title without a high-impact and without a curious
\* keyword is classified green.
C20_PlainArxivItemGreen ==
    \A i \in CallIdx :
        LET it == calls[i].arg
        IN  (/\ it.source = PyStr(<<"arxiv">>)
             /\ it.score = PyInt(0)
             /\ it.description = PyStr(<<>>)
             /\ it.title.k = "str" /\ it.title.s # <<>>
             /\ SubScoresAt(i).hi = Ok(0)
             /\ SubScoresAt(i).cur = Ok(0))
            => calls[i].res.tier = "green"

\* --------------------------------------------- classifier: the summary
\* round(count / len(items) * 100, 1), in tenths of a percent
Pct(count, n) == (2000 * count + n) \div (2 * n)

\* the number of items of the list that classify maps to a tier
CountTier(self, items, nowv, err, tier) ==
    Cardinality({j \in 1..Len(items) :
                    classify(self, items[j], nowv, err).tier = tier})

\* SignalClassifier.get_classification_summary: the dict it returns
get_classification_summary(self, items, nowv, err) ==
    IF items = <<>>
    THEN [key \in {"total", "red", "yellow", "green"} |-> 0]
    ELSE [key \in {"total", "red", "yellow", "green",
                   "red_pct", "yellow_pct", "green_pct"} |->
            CASE key = "total" -> Len(items)
              [] key \in Tiers -> CountTier(self, items, nowv, err, key)
              [] key = "red_pct" ->
                    Pct(CountTier(self, items, nowv, err, "red"), Len(items))
              [] key = "yellow_pct" ->
                    Pct(CountTier(self, items, nowv, err, "yellow"),
                        Len(items))
              [] key = "green_pct" ->
                    Pct(CountTier(self, items, nowv, err, "green"),
                        Len(items))]

\* the items of the summarised lists: the items of a scraper that differ in
\* title, source and score, and the item without any field
SummaryItems ==
    { MkItem(PyStr(t), PyStr(<<>>), PyStr(<<s>>), PyInt(n),
             PyStr(<<"alice">>), PyStr(<<"https:", "example.com">>),
             Naive(Now0 - 30)) :
        t \in { <<"tutorial">>, <<"experiment">>, <<"analysis", "review">> },
        s \in {"arxiv", "reddit"}, n \in {0, 100} }
    \cup {EmptyItem}

ItemLists == UNION {[1..n -> SummaryItems] : n \in 0..MaxItems}

InitSummary ==
    /\ now = Now0
    /\ IdleClassifier /\ IdleDB /\ IdleProcs /\ IdleRun

\* one call classifier.get_classification_summary(items)
GetClassificationSummary ==
    /\ \E items \in ItemLists :
          ret' = [op |-> "summary", arg |-> items,
                  result |-> get_classification_summary(classifier, items,
                                                        now, fperr)]
    /\ UNCHANGED <<rows, now, clstate, ccstate, runstate>>

NextSummary == GetClassificationSummary

SpecSummary == InitSummary /\ [][NextSummary]_vars

\* C19: for every list of items, the empty list included, the summary has
\* total = the number of items, a count per tier that is the number of items
\* classify maps to the tier, counts that sum to total, and a percentage
\* for each tier.
C19_SummaryIsReduction ==
    ret.op = "summary" =>
        LET summary == ret.result
            items == ret.arg
        IN  /\ summary["total"] = Len(items)
            /\ \A tier \in Tiers :
                  summary[tier] =
                      Cardinality({j \in 1..Len(items) :
                          classify(classifier, items[j], now, fperr).tier
                              = tier})
            /\ summary["red"] + summary["yellow"] + summary["green"]
                  = summary["total"]
            /\ {"red_pct", "yellow_pct", "green_pct"} \subseteq DOMAIN summary

\* C28: a red result has a red score that is the maximum of the three and a
\* confidence above 0.3; a yellow result has a yellow score that is the
\* maximum and a confidence above 0.2; a green result has a confidence of
\* at least 0.1; so no confidence is below 0.1.
C28_TierSoundness ==
    \A i \in CallIdx :
        LET res == calls[i].res
        IN  /\ res.tier = "red" =>
                  /\ ~StepFailed(SubScoresAt(i))
                  /\ RedIsMaxAt(i)
                  /\ res.confidence > Lit(300)
            /\ res.tier = "yellow" =>
                  /\ ~StepFailed(SubScoresAt(i))
                  /\ YellowIsMaxAt(i)
                  /\ res.confidence > Lit(200)
            /\ res.tier = "green" => res.confidence >= Lit(100)
            /\ res.confidence >= Lit(100)

\* a green result whose green score is below 0.1, reported as 0.1
C28_Witness ==
    \E i \in CallIdx :
        /\ ~StepFailed(SubScoresAt(i))
        /\ calls[i].res.tier = "green"
        /\ ScoresAt(i).green < Lit(100)
        /\ calls[i].res.confidence = Lit(100)

\* ------------------------------------------------- classifier: whole items
\* the dictionary _create_item_dict builds: the seven fields classify reads
\* and the four it does not
WithExtras(it, source_id, comment_count, tags, extra_data) ==
    [title |-> it.title, description |-> it.description,
     source |-> it.source, score |-> it.score, author |-> it.author,
     url |-> it.url, published_date |-> it.published_date,
     source_id |-> source_id, comment_count |-> comment_count,
     tags |-> tags, extra_data |-> extra_data]

PyList(ws) == [k |-> "list", s |-> ws, n |-> 0]
PyDict(keys) == [k |-> "dict", s |-> keys, n |-> 0]

\* comment_count=0, tags=None, extra_data=None
DefaultExtras(it) ==
    WithExtras(it, PyStr(<<"id1">>), PyInt(0), EmptyList, PyDict(<<>>))

ExtraVariants(it) ==
    { WithExtras(it, PyStr(<<sid>>), PyInt(c), x.tags, x.extra_data) :
        sid \in {"id1", "id2"}, c \in {0, 7},
        x \in { [tags |-> EmptyList, extra_data |-> PyDict(<<>>)],
                [tags |-> PyList(<<"cs.AI">>),
                 extra_data |-> PyDict(<<"license">>)] } }

CuriousItem ==
    MkItem(PyStr(<<"experiment">>), PyStr(<<"tool">>), PyStr(<<"reddit">>),
           PyInt(10), PyStr(<<"alice">>), PyStr(<<"https:", "example.com">>),
           Naive(Now0 - 30))

\* items of every title, source, score and date, built without a
\* description, without an author, or without both
NoneFieldItems ==
    { MkItem(PyStr(t), x.description, PyStr(<<s>>), PyInt(n), x.author,
             PyStr(<<"https:", "github.com", "x">>), d) :
        t \in { <<"tutorial">>,
                <<"breakthrough", "dataset", "benchmark">> },
        s \in {"github", "arxiv"}, n \in {0, 100},
        d \in {None, Naive(Now0 - 2)},
        x \in { [description |-> None, author |-> PyStr(<<"alice">>)],
                [description |-> PyStr(<<"survey">>), author |-> None],
                [description |-> None, author |-> None] } }

WholeItems ==
    ExtraVariants(BaseItem) \cup ExtraVariants(CuriousItem)
    \cup ExtraVariants([BaseItem EXCEPT !.description = None])
    \cup { DefaultExtras(it) : it \in NoneFieldItems }

InitItems ==
    /\ item \in WholeItems
    /\ now = Now0
    /\ fperr = ZeroErr
    /\ classifier = SignalClassifier
    /\ calls = <<>>
    /\ IdleDB /\ IdleProcs /\ IdleRun

\* the caller's loop moves on to the next item once this one is classified
NextItem ==
    /\ Len(calls) >= 1 /\ Len(calls) < MaxCalls
    /\ calls[Len(calls)].arg = item
    /\ item' \in WholeItems \ {item}
    /\ UNCHANGED <<now, fperr, classifier, calls, rows, ret, procs, run>>

NextItems == Classify \/ NextItem

SpecItems == InitItems /\ [][NextItems]_vars

\* the pair classify returns
Pair(res) == <<res.tier, res.confidence>>

SameInterpretedFields(a, b) == \A f \in Fields : a[f] = b[f]

\* C25: two items that agree on title, description, source, score, author,
\* url and published date receive the same (tier, confidence), whatever
\* their source_id, comment count, tags and extra_data.
C25_NonInterference ==
    \A i, j \in CallIdx :
        SameInterpretedFields(calls[i].arg, calls[j].arg)
            => Pair(calls[i].res) = Pair(calls[j].res)

\* two classified items that differ in each of the four uninterpreted
\* fields and in nothing else
C25_Witness ==
    \E i, j \in CallIdx :
        /\ SameInterpretedFields(calls[i].arg, calls[j].arg)
        /\ calls[i].arg.source_id # calls[j].arg.source_id
        /\ calls[i].arg.comment_count # calls[j].arg.comment_count
        /\ calls[i].arg.tags # calls[j].arg.tags
        /\ calls[i].arg.extra_data # calls[j].arg.extra_data
        /\ ~StepFailed(SubScoresAt(i))
        /\ Pair(calls[i].res) = Pair(calls[j].res)

\* C27: an item whose description or author is None is classified exactly
\* (green, 0.1), by the exception fallback, whatever its title, source,
\* score and date.
C27_NoneFieldFallsBack ==
    \A i \in CallIdx :
        (calls[i].arg.description = None \/ calls[i].arg.author = None)
            => /\ Pair(calls[i].res) = <<"green", Lit(100)>>
               /\ calls[i].res.caught

\* a recent, highly starred item with red keywords and no description
C27_Witness ==
    \E i \in CallIdx :
        /\ calls[i].arg.description = None
        /\ calls[i].arg.author.k = "str"
        /\ calls[i].arg.title = PyStr(<<"breakthrough", "dataset",
                                        "benchmark">>)
        /\ calls[i].arg.score = PyInt(100)
        /\ calls[i].arg.published_date = Naive(Now0 - 2)
        /\ Pair(calls[i].res) = <<"green", Lit(100)>>

\* ------------------------------------------------------------- sub-scores
\* texts made of the first j high-impact keywords, and one without any
ScoreTexts ==
    { <<>>, <<"tutorial">>, <<"datasets", "records">>,
      <<"sota">>, <<"sota", "breakthrough">>,
      <<"state-of-the-art", "sota", "breakthrough">>,
      <<"state-of-the-art", "sota", "breakthrough", "introduce">>,
      <<"state-of-the-art", "sota", "breakthrough", "introduce", "new",
        "model">>,
      <<"state-of-the-art", "sota", "breakthrough", "introduce", "new",
        "model", "open", "source", "dataset", "benchmark", "outperform",
        "record">> }

\* keyword sets: the empty one and the first 1, 2, 4, 5 and 10 keywords
KeywordSets ==
    { SubSeq(SignalClassifier.high_impact_keywords, 1, n) :
        n \in {0, 1, 2, 4, 5, 10} }

ScoreSources == {"arxiv", "github", "reddit", "hackernews", "other"}
EngagementScores == {0, 1, 5, 9, 10, 11, 19, 20, 21, 49, 50, 99, 100, 150}

\* items of which only source and score matter
SourceScoreItems ==
    { [BaseItem EXCEPT !.source = PyStr(<<s>>), !.score = PyInt(n)] :
        s \in ScoreSources, n \in EngagementScores }

ScoreAges == {0, 2, 5, 6, 10, 23, 24, 30, 71, 72, 100, 167, 168, 240}

\* published dates as the adapters store them: a naive datetime (arXiv,
\* Reddit, Hacker News), a timezone-aware one (GitHub), nothing, or the ISO
\* strings the stored rows are read back with
PublishedDates ==
    {Absent, None}
    \cup {Naive(Now0 - g) : g \in ScoreAges}
    \cup {Aware(Now0 - g) : g \in ScoreAges}
    \cup {IsoStr(Now0 - g) : g \in ScoreAges}
    \cup {IsoStrZ(Now0 - g) : g \in ScoreAges}

RecencyScoreItems ==
    { [BaseItem EXCEPT !.published_date = d] : d \in PublishedDates }

InitScores ==
    /\ now = Now0
    /\ IdleClassifier /\ IdleDB /\ IdleProcs /\ IdleRun

\* one call classifier._calculate_keyword_score(text, keywords)
KeywordScore ==
    /\ \E text \in ScoreTexts, keywords \in KeywordSets :
          ret' = [op |-> "keyword_score", text |-> text,
                  keywords |-> keywords,
                  result |-> calculate_keyword_score(text, keywords)]
    /\ UNCHANGED <<rows, now, clstate, ccstate, runstate>>

\* one call classifier._calculate_source_score(item)
SourceScore ==
    /\ \E it \in SourceScoreItems :
          ret' = [op |-> "source_score", arg |-> it,
                  result |-> calculate_source_score(classifier, it)]
    /\ UNCHANGED <<rows, now, clstate, ccstate, runstate>>

\* one call classifier._calculate_recency_score(item)
RecencyScore ==
    /\ \E it \in RecencyScoreItems :
          ret' = [op |-> "recency_score", arg |-> it,
                  result |-> calculate_recency_score(it, now)]
    /\ UNCHANGED <<rows, now, clstate, ccstate, runstate>>

NextScores == KeywordScore \/ SourceScore \/ RecencyScore

SpecScores == InitScores /\ [][NextScores]_vars

\* the source score the table of the claim gives, in hundredths times the
\* yellow floor (so that the linear part needs no division)
SourceTableTimesFloor(th, s) ==
    IF s >= th.red THEN 100 * th.yellow
    ELSE IF s >= th.yellow THEN 60 * th.yellow
    ELSE Min(s * 40, 40 * th.yellow)

KnownSource(it) == it.source.s[1] \in DOMAIN classifier.score_thresholds

\* C21: for a known source and a score s >= 0 the source score is 1.0 from
\* the red floor, 0.6 from the yellow floor and s / yellowFloor * 0.4
\* (at most 0.4) below it; no smaller score of the same source scores
\* higher; GitHub with 20 stars gets 0.6; an unknown source gets 0.1.
C21_SourceScoreTable ==
    ret.op = "source_score" =>
        LET it == ret.arg
            s == it.score.n
        IN  /\ ret.result.ok
            /\ KnownSource(it) =>
                  LET th == classifier.score_thresholds[it.source.s[1]]
                  IN  /\ s >= th.red => ret.result.v = 100
                      /\ s < th.red /\ s >= th.yellow => ret.result.v = 60
                      /\ s < th.yellow =>
                            /\ ret.result.v * th.yellow
                                  = SourceTableTimesFloor(th, s)
                            /\ ret.result.v <= 40
                      /\ \A t \in 0..s :
                            LET lower == calculate_source_score(classifier,
                                            [it EXCEPT !.score = PyInt(t)])
                            IN  lower.ok /\ lower.v <= ret.result.v
            /\ it.source = PyStr(<<"github">>) /\ s = 20
                  => ret.result.v = 60
            /\ ~KnownSource(it) => ret.result.v = 10

C21_Witness ==
    /\ ret.op = "source_score"
    /\ ret.arg.source = PyStr(<<"github">>)
    /\ ret.arg.score = PyInt(20)
    /\ ret.result = Ok(60)

\* the age in hours of a published date that carries one
HasDate(d) == d.k \in {"naive", "aware", "str"}
AgeOf(d) == now - d.n

\* C22: an item whose published date is a hours old has recency score 1.0
\* for a < 6, 0.8 for a < 24, 0.6 for a < 72, 0.4 for a < 168 and 0.1 from
\* there on; an item without a date has 0.3.
C22_RecencyStepFunction ==
    ret.op = "recency_score" =>
        LET d == ret.arg.published_date
        IN  IF HasDate(d)
            THEN ret.result = RecencyOfAge(AgeOf(d))
            ELSE ret.result = 30

\* the number of keywords of the set that occur in the text as whole words
MatchCount(text, keywords) ==
    Cardinality({kw \in {keywords[i] : i \in 1..Len(keywords)} :
                    Occurs(kw, text)})

\* C23: with n keywords of which k occur in the text, the keyword score s
\* satisfies n*s = min(k + n*min(0.1k, 0.3), n); it is 0 for an empty text
\* or an empty set, lies in [0, 1], and no text with fewer matches of the
\* same set scores higher.
C23_KeywordScoreFormula ==
    ret.op = "keyword_score" =>
        LET n == Len(ret.keywords)
            k == MatchCount(ret.text, ret.keywords)
        IN  /\ ret.text = <<>> \/ n = 0 => ret.result = 0
            /\ ret.text # <<>> /\ n > 0 =>
                  n * ret.result
                      = Min(100 * k + n * Min(10 * k, 30), 100 * n)
            /\ ret.result >= 0 /\ ret.result <= 100
            /\ \A text \in ScoreTexts :
                  MatchCount(text, ret.keywords) <= k
                      => calculate_keyword_score(text, ret.keywords)
                            <= ret.result

C23_Witness ==
    /\ ret.op = "keyword_score"
    /\ Len(ret.keywords) = 5
    /\ MatchCount(ret.text, ret.keywords) = 2
    /\ ret.result = 60

\* ------------------------------------------- the minimal app's persistence
MaxBatch == 2
MaxStored == 3

\* streamlit_app_minimal.py lines 74-77: the rows the duplicate query
\* matches.  The session is made with autoflush=False, so the query reads
\* the table only, not the items this call has added and not yet committed.
ExistingByTitle(db, it) ==
    {r \in db : r.source = it.source /\ r.title = it.title}

\* lines 83-94: the FeedItem built from an item, with the id the insert
\* gives the k-th pending row
MinimalFeedItem(db, it, k, nowv) ==
    [id |-> NextId(db) + k - 1,
     source |-> it.source,
     source_id |-> it.source_id,
     url |-> it.url,
     title |-> it.title,
     scraped_date |-> Naive(nowv),
     signal_type |-> it.signal_type]

\* lines 72-97: the loop over the batch.  fail_at = k means the database
\* raises on the query for the k-th item (the file is locked, say)
RECURSIVE save_loop(_, _, _, _, _, _)
save_loop(db, items, k, pending, saved_count, fail_at) ==
    IF k > Len(items)
    THEN [pending |-> pending, saved_count |-> saved_count, raised |-> FALSE]
    ELSE IF fail_at = k
    THEN [pending |-> pending, saved_count |-> saved_count, raised |-> TRUE]
    ELSE IF ExistingByTitle(db, items[k]) # {}
    THEN save_loop(db, items, k + 1, pending, saved_count, fail_at)
    ELSE save_loop(db, items, k + 1, Append(pending, items[k]),
                   saved_count + 1, fail_at)

\* save_to_database: the loop, then the commit of the pending rows; an
\* exception of the loop or of the commit (fail_at = Len(items) + 1, or a
\* NOT NULL column that is None) rolls the pending rows back; either way
\* the function returns saved_count
save_to_database(db, items, nowv, fail_at) ==
    LET l == save_loop(db, items, 1, <<>>, 0, fail_at)
        new == {MinimalFeedItem(db, l.pending[k], k, nowv) :
                    k \in 1..Len(l.pending)}
    IN  IF l.raised \/ fail_at = Len(items) + 1
           \/ \E r \in new : r.url.k = "none" \/ r.title.k = "none"
        THEN [db |-> db, result |-> l.saved_count]
        ELSE [db |-> db \cup new, result |-> l.saved_count]

\* an item of scrape_arxiv or scrape_github, classified
MinimalItem(source, source_id, title) ==
    [source |-> PyStr(<<source>>), source_id |-> PyStr(<<source_id>>),
     url |-> PyStr(<<"https:", "example.com">>), title |-> PyStr(title),
     signal_type |-> PyStr(<<"green">>)]

\* a repository before and after its description was edited (the title of
\* a GitHub item is "{full_name} - {description}"), and two papers with
\* the same title
MinimalItems ==
    { MinimalItem("GitHub", "github_1", <<"o/r", "-", "old">>),
      MinimalItem("GitHub", "github_1", <<"o/r", "-", "new">>),
      MinimalItem("arXiv", "arxiv_1", <<"survey">>),
      MinimalItem("arXiv", "arxiv_2", <<"survey">>) }

MinimalBatches == UNION {[1..n -> MinimalItems] : n \in 0..MaxBatch}

InitMinimal ==
    /\ rows = {}
    /\ now = Now0
    /\ ret = [op |-> "none"]
    /\ IdleClassifier /\ IdleProcs /\ IdleRun

\* one call save_to_database(all_items, SessionLocal)
SaveToDatabase ==
    \E items \in MinimalBatches :
        \E fail_at \in 0..(Len(items) + 1) :
            LET out == save_to_database(rows, items, now, fail_at)
            IN  /\ Cardinality(rows) + Len(items) <= MaxStored
                /\ rows' = out.db
                /\ ret' = [op |-> "save", arg |-> items,
                           fail_at |-> fail_at, before |-> rows,
                           result |-> out.result]
                /\ UNCHANGED <<now, clstate, ccstate, runstate>>

NextMinimal == SaveToDatabase

SpecMinimal == InitMinimal /\ [][NextMinimal]_vars

\* C26: after save_to_database has processed a batch no two persisted rows
\* share (source, source_id): of the records of a batch that share a key
\* one is persisted, and a record whose key is stored is not inserted
\* again.
C26_UniqueKeyAfterSave ==
    ret.op = "save" =>
        \A r1, r2 \in rows : FeedKey(r1) = FeedKey(r2) => r1 = r2

\* C30: the count save_to_database returns is the number of rows the call
\* added to the store, also when the batch was rolled back.
C30_CountIsRowsAdded ==
    ret.op = "save" =>
        /\ ret.before \subseteq rows
        /\ ret.result = Cardinality(rows \ ret.before)


====
